---- MODULE Spec2Model ----
(***************************************************************************)
(* Solopreneur Sidekick: the Gemini service layer (services/geminiService) *)
(* and the App component that drives it.                                   *)
(*                                                                         *)
(* Upstream requests (ai.models.generateContent) are modelled as request   *)
(* slots that go idle -> pending -> rejected | fulfilled(body).  One       *)
(* action is one macrotask: the arrival of one upstream response together  *)
(* with the whole chain of promise reactions it triggers, up to the next   *)
(* await on a request that is still pending.                               *)
(***************************************************************************)
EXTENDS Integers, Sequences, FiniteSets, TLC

\* ------------------------------------------------------------------ bounds
MaxSceneReply == 6      \* longest array the scene request may answer with

MaxTextLen == 6         \* longest text the moderation request may answer with

MaxCount == 5           \* largest count the scene pipeline is called with

MaxSubmits == 2         \* executions of handleSubmit suspended at the same time

MaxItems == 2           \* usage images, and posts, the page is let grow to

\* ------------------------------------------------------- program constants
SceneCount == 4         \* count passed to _generateSceneDescriptions

VARIABLES
    op,                     \* exported service function under call
    options,                \* options argument of generateProductContent
    productType,            \* productType argument
    count,                  \* count argument of _generateSceneDescriptions
    pc,                     \* position of the called function
    req,                    \* named upstream requests
    sceneDescriptions,      \* argument of _generateUsageImages
    usageImageResults,      \* one request per scene (usageImagePromises)
    productTitleForImages,  \* title handed to _generateSceneDescriptions
    result,                 \* value the call resolved with
    err,                    \* message the call rejected with
    moderationResponse,     \* the request of checkContentSafety
    isSafe,                 \* how checkContentSafety completed
    \* ---- state of the App component (useState)
    image, coreBenefit, generatedContent, isLoading, isGeneratingMoreImages,
    isGeneratingNewPost, isGeneratingTaglishPost, error, generationOptions,
    displayOptions, activeTab,
    \* ---- handler executions suspended at an await
    submits,                \* the executions of handleSubmit, oldest first
    moreImages,             \* the execution of handleGenerateMoreImages
    newPost,                \* the execution of handleGenerateNewSocialPost
    taglishPost,            \* the execution of handleGenerateTaglishPost
    \* ---- history
    safetyPassed            \* pairs checkContentSafety has answered true for

svcVars == <<op, options, productType, count, pc, req, sceneDescriptions,
             usageImageResults, productTitleForImages, result, err>>

safetyVars == <<moderationResponse, isSafe>>

appVars == <<image, coreBenefit, generatedContent, isLoading, isGeneratingMoreImages,
             isGeneratingNewPost, isGeneratingTaglishPost, error, generationOptions,
             displayOptions, activeTab, submits, moreImages, newPost,
             taglishPost, safetyPassed>>

vars == <<svcVars, safetyVars, appVars>>

\* ------------------------------------------------------------ JS objects
\* A JSON object is a function from its keys to their values.
EmptyObject == <<>>

Keys(o) == DOMAIN o

Has(o, k) == k \in DOMAIN o

With(o, k, v) == [x \in (DOMAIN o) \cup {k} |-> IF x = k THEN v ELSE o[x]]

Without(o, k) == [x \in (DOMAIN o) \ {k} |-> o[x]]

\* Object.assign(a, b): keys of b overwrite keys of a
ObjectAssign(a, b) ==
    [x \in (DOMAIN a) \cup (DOMAIN b) |-> IF x \in DOMAIN b THEN b[x] ELSE a[x]]

\* if (o.k) for a string-valued or absent property
Truthy(o, k) == Has(o, k) /\ o[k] # ""

\* ------------------------------------------------------ upstream requests
NoBody == [kind |-> "none"]

Idle == [st |-> "idle", body |-> NoBody]

Pending == [st |-> "pending", body |-> NoBody]

Rejected == [st |-> "rejected", body |-> NoBody]

Fulfilled(b) == [st |-> "fulfilled", body |-> b]

IsSettled(r) == r.st \in {"rejected", "fulfilled"}

\* response.text is undefined / is not JSON / parses to the value v
NoText == [kind |-> "notext"]

NonJSON == [kind |-> "nonjson"]

JSON(v) == [kind |-> "json", val |-> v]

\* an image response without / with an inlineData part
NoImagePart == [kind |-> "noimage"]

ImagePart(d) == [kind |-> "image", data |-> d]

HasInlineData(r) == r.st = "fulfilled" /\ r.body.kind = "image"

ReqIds == {"listing", "socialText", "socialImage", "studio", "scene",
           "postText", "postImage"}

\* ------------------------------------------------------------- messages
NoError == "none"

ErrUpstream == "upstream request failed"

ErrParse == "response is not readable JSON"

ErrStudio == "The AI failed to generate an edited product image."

ErrNoUsage == "The AI failed to generate any usage example images."

ErrNothing == "No content was generated. Please check your selections."

\* ------------------------------------------------------- promise outcomes
TaskPending == [st |-> "pending", val |-> EmptyObject, err |-> NoError]

TaskFulfilled(v) == [st |-> "fulfilled", val |-> v, err |-> NoError]

TaskRejected(e) == [st |-> "rejected", val |-> EmptyObject, err |-> e]

\* await ai.models.generateContent(..); JSON.parse(response.text.trim())
ParsedText(r) ==
    CASE r.st \in {"idle", "pending"} -> TaskPending
      [] r.st = "rejected"            -> TaskRejected(ErrUpstream)
      [] r.body.kind = "json"         -> TaskFulfilled(r.body.val)
      [] OTHER                        -> TaskRejected(ErrParse)

\* ----------------------------------------------------- checkContentSafety
\* a response whose text is the character sequence t
Text(t) == [kind |-> "text", text |-> t]

\* String.prototype.includes
includes(t, pat) ==
    \E i \in 0..(Len(t) - Len(pat)) : SubSeq(t, i + 1, i + Len(pat)) = pat

Whitespace == {" ", "\n"}

\* String.prototype.trim
RECURSIVE trim(_)
trim(t) ==
    IF t = <<>> THEN t
    ELSE IF Head(t) \in Whitespace THEN trim(Tail(t))
    ELSE IF t[Len(t)] \in Whitespace THEN trim(SubSeq(t, 1, Len(t) - 1))
    ELSE t

SAFE == <<"S", "A", "F", "E">>

UNSAFE == <<"U", "N", "S", "A", "F", "E">>

\* completions of an async function
NotCalled == [kind |-> "notCalled"]

Returned(v) == [kind |-> "returned", val |-> v]

Threw == [kind |-> "threw"]

\* the try block: the awaited request rejects, or reading .includes of an
\* undefined text throws, or the includes test is returned
TryModeration(r) ==
    CASE r.st = "rejected"        -> Threw
      [] r.body.kind # "text"     -> Threw
      [] OTHER                    -> Returned(includes(r.body.text, SAFE))

\* the try block without its catch
checkContentSafety_NoCatch(r) == TryModeration(r)

\* try { .. } catch (error) { return false; }
checkContentSafety(r) ==
    IF TryModeration(r) = Threw THEN Returned(FALSE) ELSE TryModeration(r)

Alphabet == {"S", "A", "F", "E", "U", "N", " "}

\* every text over the alphabet up to MaxTextLen, and a lowercase answer
ModerationTexts ==
    UNION { [1..n -> Alphabet] : n \in 0..MaxTextLen } \cup { <<"s", "a", "f", "e">> }

ModerationAnswers ==
    { Rejected, Fulfilled(NoText) } \cup { Fulfilled(Text(t)) : t \in ModerationTexts }

\* ------------------------------------------------------- response shapes
Description == [hook |-> "hook", features |-> <<"feature">>, cta |-> "cta"]

PostWith(prompt) ==
    [hook |-> "hook", body |-> "body", hashtags |-> <<"#tag">>, imagePrompt |-> prompt]

\* a post as the socialMediaPostSchema describes it, one with an empty
\* imagePrompt, and posts that break the schema (field missing, field added)
ConformingPost == PostWith("a flat lay")

Posts == { ConformingPost,
           PostWith(""),
           Without(ConformingPost, "imagePrompt"),
           Without(ConformingPost, "hook"),
           With(ConformingPost, "extra", "x") }

\* bodies a listing request can be answered with: the schema's shape, an
\* empty title, no field at all, and a field from outside the schema
ListingReplies ==
    { NonJSON,
      JSON([productTitle |-> "Title", productDescription |-> Description]),
      JSON([productTitle |-> "", productDescription |-> Description]),
      JSON(EmptyObject),
      JSON([productTitle |-> "Title", productDescription |-> Description,
            socialMediaPost |-> <<Without(ConformingPost, "imagePrompt")>>]) }

\* bodies the initial social post request can be answered with
SocialReplies ==
    { NonJSON,
      JSON(EmptyObject),
      JSON([socialMediaPost |-> <<>>]),
      JSON([socialMediaPost |-> <<ConformingPost>>]),
      JSON([socialMediaPost |-> <<Without(ConformingPost, "imagePrompt")>>]),
      JSON([socialMediaPost |-> <<ConformingPost>>, productTitle |-> "Leak"]) }

\* bodies an additional post request can be answered with
PostReplies == { NonJSON } \cup { JSON(p) : p \in Posts }

\* answers of an image request: rejection, or a response without / with an
\* image part; d identifies the payload
ImageAnswers(d) == { Rejected, Fulfilled(NoImagePart), Fulfilled(ImagePart(d)) }

TextAnswers(replies) == { Rejected } \cup { Fulfilled(b) : b \in replies }

\* JSON values of the scene reply: a non-array, an array holding a number,
\* and the arrays of n strings
SceneString(i) == [isString |-> TRUE, s |-> i]

SceneNumber(i) == [isString |-> FALSE, s |-> i]

SceneValues ==
    { [isArray |-> FALSE, items |-> <<>>],
      [isArray |-> TRUE, items |-> <<SceneString(1), SceneNumber(2)>>] }
    \cup { [isArray |-> TRUE, items |-> [i \in 1..n |-> SceneString(i)]]
             : n \in 0..MaxSceneReply }

SceneReplies == { NonJSON } \cup { JSON(v) : v \in SceneValues }

\* ----------------------------------------------------------- sub-tasks
_generateProductListing(r) == ParsedText(r)

\* content.socialMediaPost && content.socialMediaPost.length > 0 && post.imagePrompt
WantsImage(content) ==
    /\ Has(content, "socialMediaPost")
    /\ Len(content.socialMediaPost) > 0
    /\ Truthy(content.socialMediaPost[1], "imagePrompt")

\* an illustration attempt that throws the image away
Illustrated_NoImage(post, ri) == Without(post, "imagePrompt")

\* the post after the illustration attempt: imageBase64 set when the response
\* has an image part, imagePrompt deleted
Illustrated(post, ri) ==
    Without(IF HasInlineData(ri) THEN With(post, "imageBase64", ri.body.data) ELSE post,
            "imagePrompt")

_generateInitialSocialPost(rt, ri) ==
    LET parsed == ParsedText(rt)
        content == parsed.val
    IN  IF parsed.st # "fulfilled" THEN parsed
        ELSE IF ~WantsImage(content) THEN TaskFulfilled(content)
        ELSE IF ~IsSettled(ri) THEN TaskPending
        ELSE TaskFulfilled(
               [content EXCEPT !.socialMediaPost =
                   [content.socialMediaPost EXCEPT ![1] = Illustrated(@, ri)]])

\* generateNewSocialMediaPost and generateTaglishSocialMediaPost
generateNewSocialMediaPost(rt, ri) ==
    LET parsed == ParsedText(rt)
        postContent == parsed.val
    IN  IF parsed.st # "fulfilled" THEN parsed
        ELSE IF ~Truthy(postContent, "imagePrompt")
             THEN TaskFulfilled(Without(postContent, "imagePrompt"))
        ELSE IF ~IsSettled(ri) THEN TaskPending
        ELSE TaskFulfilled(Illustrated(postContent, ri))

\* String fallback scenes; k is the #k suffix
Fallback(k) == [fallback |-> TRUE, s |-> k]

Scene(e) == [fallback |-> FALSE, s |-> e.s]

Min(a, b) == IF a < b THEN a ELSE b

\* fallback strings that all carry the same suffix
_generateSceneDescriptions_SameSuffix(r, cnt) ==
    LET parsed == ParsedText(r)
        v == parsed.val
    IN  IF /\ parsed.st = "fulfilled"
           /\ v.isArray
           /\ Len(v.items) > 0
           /\ \A i \in 1..Len(v.items) : v.items[i].isString
        THEN [i \in 1..Min(Len(v.items), cnt) |-> Scene(v.items[i])]
        ELSE [i \in 1..cnt |-> Fallback(1)]

\* the parsed array returned without slice(0, count)
_generateSceneDescriptions_NoSlice(r, cnt) ==
    LET parsed == ParsedText(r)
        v == parsed.val
    IN  IF /\ parsed.st = "fulfilled"
           /\ v.isArray
           /\ Len(v.items) > 0
           /\ \A i \in 1..Len(v.items) : v.items[i].isString
        THEN [i \in 1..Len(v.items) |-> Scene(v.items[i])]
        ELSE [i \in 1..cnt |-> Fallback(i)]

\* parsedScenes.slice(0, count), or count fallback strings
_generateSceneDescriptions(r, cnt) ==
    LET parsed == ParsedText(r)
        v == parsed.val
    IN  IF /\ parsed.st = "fulfilled"
           /\ v.isArray
           /\ Len(v.items) > 0
           /\ \A i \in 1..Len(v.items) : v.items[i].isString
        THEN [i \in 1..Min(Len(v.items), cnt) |-> Scene(v.items[i])]
        ELSE [i \in 1..cnt |-> Fallback(i)]

\* a forEach that puts a placeholder where a request gave no image
RECURSIVE successfulImages_Substituting(_)
successfulImages_Substituting(results) ==
    IF results = <<>> THEN <<>>
    ELSE LET rest == successfulImages_Substituting(SubSeq(results, 1, Len(results) - 1))
             last == results[Len(results)]
         IN  Append(rest, IF HasInlineData(last) THEN last.body.data ELSE 0)

\* a forEach that puts each image in front of the ones already kept
RECURSIVE successfulImages_Reversed(_)
successfulImages_Reversed(results) ==
    IF results = <<>> THEN <<>>
    ELSE LET rest == successfulImages_Reversed(SubSeq(results, 1, Len(results) - 1))
             last == results[Len(results)]
         IN  IF HasInlineData(last) THEN <<last.body.data>> \o rest ELSE rest

\* successfulImages after the forEach over usageImageResults
RECURSIVE successfulImages(_)
successfulImages(results) ==
    IF results = <<>> THEN <<>>
    ELSE LET rest == successfulImages(SubSeq(results, 1, Len(results) - 1))
             last == results[Len(results)]
         IN  IF HasInlineData(last) THEN Append(rest, last.body.data) ELSE rest

\* Promise.all in place of Promise.allSettled: the first rejection rejects
_generateUsageImages_FailFast(scenes, results) ==
    IF \E i \in 1..Len(results) : results[i].st = "rejected" THEN TaskRejected(ErrUpstream)
    ELSE IF \E i \in 1..Len(results) : ~IsSettled(results[i]) THEN TaskPending
    ELSE IF Len(scenes) > 0 /\ Len(successfulImages(results)) = 0
         THEN TaskRejected(ErrNoUsage)
    ELSE TaskFulfilled(successfulImages(results))

\* the final test without sceneDescriptions.length > 0
_generateUsageImages_ThrowsOnEmpty(scenes, results) ==
    IF \E i \in 1..Len(results) : ~IsSettled(results[i]) THEN TaskPending
    ELSE IF Len(successfulImages(results)) = 0 THEN TaskRejected(ErrNoUsage)
    ELSE TaskFulfilled(successfulImages(results))

_generateUsageImages(scenes, results) ==
    IF \E i \in 1..Len(results) : ~IsSettled(results[i]) THEN TaskPending
    ELSE IF Len(scenes) > 0 /\ Len(successfulImages(results)) = 0
         THEN TaskRejected(ErrNoUsage)
    ELSE TaskFulfilled(successfulImages(results))

\* -------------------------------------------------- generateProductContent
AllOptions == [productListing : BOOLEAN, socialMedia : BOOLEAN, images : BOOLEAN]

\* textPromises, in push order
textPromises(opts) ==
    (IF opts.productListing THEN <<"listing">> ELSE <<>>)
    \o (IF opts.socialMedia THEN <<"social">> ELSE <<>>)

TextTask(t, rq) ==
    IF t = "listing" THEN _generateProductListing(rq["listing"])
    ELSE _generateInitialSocialPost(rq["socialText"], rq["socialImage"])

\* textResults.forEach(res => Object.assign(result, res))
RECURSIVE MergeText(_, _)
MergeText(tasks, rq) ==
    IF tasks = <<>> THEN EmptyObject
    ELSE ObjectAssign(MergeText(SubSeq(tasks, 1, Len(tasks) - 1), rq),
                      TextTask(tasks[Len(tasks)], rq).val)

\* result.productTitle || productType
TitleForImages(res, ptype) ==
    IF Truthy(res, "productTitle") THEN res.productTitle ELSE ptype

Settle(p, r, e) == /\ pc' = p
                   /\ result' = r
                   /\ err' = e

\* the call settles as the promise t did
SettleAs(t) ==
    IF t.st = "fulfilled" THEN Settle("resolved", t.val, NoError)
    ELSE Settle("rejected", EmptyObject, t.err)

\* the same code without its check of the studio image
Finish_NoStudioCheck(opts, res, main, images) ==
    LET withMain  == IF HasInlineData(main)
                     THEN With(res, "productImageBase64", main.body.data) ELSE res
        withUsage == IF opts.images
                     THEN With(withMain, "usageImagesBase64", images) ELSE withMain
    IN  IF Keys(withUsage) = {} THEN TaskRejected(ErrNothing)
        ELSE TaskFulfilled(withUsage)

\* the code after await Promise.all([mainImagePromise, usageImagesPromise]):
\* res is the merged text, main the studio request, images the usage pipeline
Finish(opts, res, main, images) ==
    LET withMain  == IF HasInlineData(main)
                     THEN With(res, "productImageBase64", main.body.data) ELSE res
        withUsage == IF opts.images
                     THEN With(withMain, "usageImagesBase64", images) ELSE withMain
    IN  IF opts.images /\ ~HasInlineData(main) THEN TaskRejected(ErrStudio)
        ELSE IF Keys(withUsage) = {} THEN TaskRejected(ErrNothing)
        ELSE TaskFulfilled(withUsage)

\* the code between the two awaits: merge, pick the title, start the image phase
AfterText(rq) ==
    LET merged == MergeText(textPromises(options), rq)
    IN  /\ productTitleForImages' = TitleForImages(merged, productType)
        /\ IF options.images
           THEN /\ req' = [rq EXCEPT !["studio"] = Pending, !["scene"] = Pending]
                /\ Settle("awaitImages", merged, NoError)
           ELSE /\ req' = rq
                /\ SettleAs(Finish(options, merged, Idle, <<>>))

\* a reaction that waits for every text task and goes on whatever they gave
TextReaction_AllSettled(rq) ==
    LET tasks == textPromises(options)
    IN  IF pc = "awaitText" /\ \A i \in 1..Len(tasks) : TextTask(tasks[i], rq).st # "pending"
        THEN AfterText(rq)
        ELSE /\ req' = rq
             /\ UNCHANGED <<pc, result, err, productTitleForImages>>

\* reaction of await Promise.all(textPromises) to the request states rq
TextReaction(rq) ==
    LET tasks == textPromises(options)
        failed == { i \in 1..Len(tasks) : TextTask(tasks[i], rq).st = "rejected" }
    IN  IF pc # "awaitText"
        THEN /\ req' = rq
             /\ UNCHANGED <<pc, result, err, productTitleForImages>>
        ELSE IF failed # {}
        THEN /\ req' = rq
             /\ Settle("rejected", EmptyObject,
                       TextTask(tasks[CHOOSE i \in failed : TRUE], rq).err)
             /\ UNCHANGED productTitleForImages
        ELSE IF \A i \in 1..Len(tasks) : TextTask(tasks[i], rq).st = "fulfilled"
        THEN AfterText(rq)
        ELSE /\ req' = rq
             /\ UNCHANGED <<pc, result, err, productTitleForImages>>

\* reaction of the caller of the scene -> usage image pipeline
ImageReaction(rq, scenes, results) ==
    LET main == rq["studio"]
        pipeline == IF IsSettled(rq["scene"]) THEN _generateUsageImages(scenes, results)
                    ELSE TaskPending
    IN  CASE op \in {"generateMoreUsageImages", "scenesThenImages"} ->
               IF pipeline.st = "pending" THEN UNCHANGED <<pc, result, err>>
               ELSE SettleAs(pipeline)
          [] pc # "awaitImages" -> UNCHANGED <<pc, result, err>>
          [] main.st = "rejected" -> Settle("rejected", EmptyObject, ErrUpstream)
          [] pipeline.st = "rejected" -> Settle("rejected", EmptyObject, pipeline.err)
          [] main.st = "fulfilled" /\ pipeline.st = "fulfilled" ->
               SettleAs(Finish(options, result, main, pipeline.val))
          [] OTHER -> UNCHANGED <<pc, result, err>>

\* ---------------------------------------------------------------- calls
CallGenerateProductContent ==
    /\ op = "generateProductContent" /\ pc = "idle"
    /\ LET rq == [req EXCEPT
                    !["listing"] = IF options.productListing THEN Pending ELSE @,
                    !["socialText"] = IF options.socialMedia THEN Pending ELSE @]
       IN  IF textPromises(options) # <<>>
           THEN /\ req' = rq
                /\ Settle("awaitText", EmptyObject, NoError)
                /\ UNCHANGED productTitleForImages
           ELSE AfterText(rq)
    /\ UNCHANGED <<op, options, productType, count, sceneDescriptions, usageImageResults>>
    /\ UNCHANGED <<safetyVars, appVars>>

CallGenerateMoreUsageImages ==
    /\ op = "generateMoreUsageImages" /\ pc = "idle"
    /\ req' = [req EXCEPT !["scene"] = Pending]
    /\ pc' = "awaitImages"
    /\ UNCHANGED <<op, options, productType, count, sceneDescriptions, usageImageResults,
                   productTitleForImages, result, err>>
    /\ UNCHANGED <<safetyVars, appVars>>

CallGenerateNewSocialMediaPost ==
    /\ op \in {"generateNewSocialMediaPost", "generateTaglishSocialMediaPost"}
    /\ pc = "idle"
    /\ req' = [req EXCEPT !["postText"] = Pending]
    /\ pc' = "awaitPost"
    /\ UNCHANGED <<op, options, productType, count, sceneDescriptions, usageImageResults,
                   productTitleForImages, result, err>>
    /\ UNCHANGED <<safetyVars, appVars>>

\* ------------------------------------------------------ upstream answers
ListingSettles ==
    /\ req["listing"].st = "pending"
    /\ \E a \in TextAnswers(ListingReplies) :
          TextReaction([req EXCEPT !["listing"] = a])
    /\ UNCHANGED <<op, options, productType, count, sceneDescriptions, usageImageResults>>
    /\ UNCHANGED <<safetyVars, appVars>>

\* the social text answer; the illustration request is issued in the same turn
SocialTextSettles ==
    /\ req["socialText"].st = "pending"
    /\ \E a \in TextAnswers(SocialReplies) :
          LET parsed == ParsedText(a)
              issue == parsed.st = "fulfilled" /\ WantsImage(parsed.val)
          IN  TextReaction([req EXCEPT !["socialText"] = a,
                                       !["socialImage"] = IF issue THEN Pending ELSE @])
    /\ UNCHANGED <<op, options, productType, count, sceneDescriptions, usageImageResults>>
    /\ UNCHANGED <<safetyVars, appVars>>

SocialImageSettles ==
    /\ req["socialImage"].st = "pending"
    /\ \E a \in ImageAnswers("socialImage") :
          TextReaction([req EXCEPT !["socialImage"] = a])
    /\ UNCHANGED <<op, options, productType, count, sceneDescriptions, usageImageResults>>
    /\ UNCHANGED <<safetyVars, appVars>>

StudioSettles ==
    /\ req["studio"].st = "pending"
    /\ \E a \in ImageAnswers("studioImage") :
          /\ req' = [req EXCEPT !["studio"] = a]
          /\ ImageReaction(req', sceneDescriptions, usageImageResults)
    /\ UNCHANGED <<op, options, productType, count, sceneDescriptions, usageImageResults,
                   productTitleForImages>>
    /\ UNCHANGED <<safetyVars, appVars>>

\* the scene answer; _generateUsageImages issues one request per scene
SceneSettles ==
    /\ req["scene"].st = "pending"
    /\ \E a \in TextAnswers(SceneReplies) :
          /\ req' = [req EXCEPT !["scene"] = a]
          /\ sceneDescriptions' = _generateSceneDescriptions(a, count)
          /\ usageImageResults' = [i \in 1..Len(sceneDescriptions') |-> Pending]
          /\ ImageReaction(req', sceneDescriptions', usageImageResults')
    /\ UNCHANGED <<op, options, productType, count, productTitleForImages>>
    /\ UNCHANGED <<safetyVars, appVars>>

UsageSettles ==
    /\ \E i \in 1..Len(usageImageResults) :
          /\ usageImageResults[i].st = "pending"
          /\ \E a \in ImageAnswers(i) :
                /\ usageImageResults' = [usageImageResults EXCEPT ![i] = a]
                /\ ImageReaction(req, sceneDescriptions, usageImageResults')
    /\ UNCHANGED <<op, options, productType, count, req, sceneDescriptions,
                   productTitleForImages>>
    /\ UNCHANGED <<safetyVars, appVars>>

PostReaction(rq) ==
    LET task == generateNewSocialMediaPost(rq["postText"], rq["postImage"])
    IN  IF task.st = "pending" THEN UNCHANGED <<pc, result, err>> ELSE SettleAs(task)

PostTextSettles ==
    /\ req["postText"].st = "pending"
    /\ \E a \in TextAnswers(PostReplies) :
          LET parsed == ParsedText(a)
              issue == parsed.st = "fulfilled" /\ Truthy(parsed.val, "imagePrompt")
          IN  /\ req' = [req EXCEPT !["postText"] = a,
                                    !["postImage"] = IF issue THEN Pending ELSE @]
              /\ PostReaction(req')
    /\ UNCHANGED <<op, options, productType, count, sceneDescriptions, usageImageResults,
                   productTitleForImages>>
    /\ UNCHANGED <<safetyVars, appVars>>

PostImageSettles ==
    /\ req["postImage"].st = "pending"
    /\ \E a \in ImageAnswers("postImage") :
          /\ req' = [req EXCEPT !["postImage"] = a]
          /\ PostReaction(req')
    /\ UNCHANGED <<op, options, productType, count, sceneDescriptions, usageImageResults,
                   productTitleForImages>>
    /\ UNCHANGED <<safetyVars, appVars>>

\* ================================================================== App
NoOptions == [productListing |-> FALSE, socialMedia |-> FALSE, images |-> FALSE]

DefaultOptions == [productListing |-> TRUE, socialMedia |-> TRUE, images |-> TRUE]

Null == [null |-> TRUE]

UploadedImage == [base64 |-> "photo", mimeType |-> "image/png"]

\* texts the user types into the two fields, with their spelling
Chars ==
    [ none |-> <<>>,
      plan |-> <<"p", "l", "a", "n">>,
      tidy |-> <<" ", "t", "i", "d", "y">>,
      BCDF |-> <<"B", "C", "D", "F">> ]

\* what the user types into the product type field, and into the benefit field
ProductTypes == {"plan", "BCDF"}

CoreBenefits == {"tidy"}

\* the three checkboxes of the form
Checkboxes == {"productListing", "images", "socialMedia"}

\* the checkboxes the user changes in the sessions of Spec; socialMedia stays
\* checked there, and SpecSelection changes all three
Toggled == {"productListing", "images"}

\* !text for a string
IsEmpty(text) == Chars[text] = <<>>

Upper == <<"B", "C", "D", "F">>

Lower == <<"b", "c", "d", "f">>

toLowerCase(t) ==
    [i \in 1..Len(t) |-> IF \E k \in 1..Len(Upper) : Upper[k] = t[i]
                         THEN Lower[CHOOSE k \in 1..Len(Upper) : Upper[k] = t[i]]
                         ELSE t[i]]

Vowels == {"a", "e", "i", "o", "u"}

Letters == {"a", "b", "c", "d", "f", "i", "l", "n", "p", "t", "y"}

isGibberish(text) ==
    LET sanitizedText == toLowerCase(trim(Chars[text]))
        hasVowels  == \E i \in 1..Len(sanitizedText) : sanitizedText[i] \in Vowels
        hasLetters == \E i \in 1..Len(sanitizedText) : sanitizedText[i] \in Letters
    IN  IF Len(sanitizedText) < 4 THEN FALSE
        ELSE IF hasLetters /\ ~hasVowels THEN TRUE
        ELSE \E i \in 1..(Len(sanitizedText) - 4) :
                \A k \in 1..4 : sanitizedText[i + k] = sanitizedText[i]

ErrFill == "Please fill out all fields and upload an image."

ErrSelect == "Please select at least one type of content to generate."

ErrGibberish == "Please provide clear, readable text for the product."

ErrSafety == "The product information provided does not meet our safety guidelines."

ErrCheck == "An error occurred during the safety check. Please try again."

\* ------------------------------------ the service as the App observes it
\* the answers the requests of one call receive
AppProductAnswers ==
    [ listing     : { Rejected,
                      Fulfilled(JSON([productTitle |-> "Title",
                                      productDescription |-> Description])) },
      socialText  : { Fulfilled(JSON([socialMediaPost |-> <<ConformingPost>>])) },
      socialImage : { Fulfilled(ImagePart("postImage")) },
      studio      : { Fulfilled(NoImagePart), Fulfilled(ImagePart("studioImage")) },
      scene       : { Fulfilled(JSON([isArray |-> TRUE, items |-> <<SceneString(1)>>])) },
      usage       : { <<Fulfilled(ImagePart("usageImage"))>> } ]

AppMoreAnswers ==
    [ scene : { Fulfilled(JSON([isArray |-> TRUE, items |-> <<SceneString(1)>>])) },
      usage : { <<Rejected>>, <<Fulfilled(ImagePart("moreImage"))>> } ]

AppPostAnswers ==
    [ postText  : { Rejected, Fulfilled(JSON(ConformingPost)) },
      postImage : { Fulfilled(ImagePart("newPostImage")) } ]

AppModerationAnswers ==
    { Rejected, Fulfilled(Text(SAFE)), Fulfilled(Text(UNSAFE)), Fulfilled(Text(<<"N", "O">>)) }

\* generateProductContent once every request it issued has been answered
generateProductContent(opts, ans) ==
    LET rq == [r \in ReqIds |->
                 CASE r = "listing" /\ opts.productListing -> ans.listing
                   [] r = "socialText" /\ opts.socialMedia -> ans.socialText
                   [] r = "socialImage" /\ opts.socialMedia -> ans.socialImage
                   [] OTHER -> Idle]
        tasks == textPromises(opts)
        failed == { i \in 1..Len(tasks) : TextTask(tasks[i], rq).st = "rejected" }
        merged == MergeText(tasks, rq)
        pipeline == _generateUsageImages(_generateSceneDescriptions(ans.scene, SceneCount),
                                         ans.usage)
    IN  IF failed # {} THEN TextTask(tasks[CHOOSE i \in failed : TRUE], rq)
        ELSE IF ~opts.images THEN Finish(opts, merged, Idle, <<>>)
        ELSE IF ans.studio.st = "rejected" THEN TaskRejected(ErrUpstream)
        ELSE IF pipeline.st = "rejected" THEN pipeline
        ELSE Finish(opts, merged, ans.studio, pipeline.val)

generateMoreUsageImages(ans) ==
    _generateUsageImages(_generateSceneDescriptions(ans.scene, SceneCount), ans.usage)

\* ---------------------------------------------------------- rendering
isFormIncomplete == image = Null \/ IsEmpty(productType) \/ IsEmpty(coreBenefit)

availableTabs ==
    (IF displayOptions.productListing THEN {"product"} ELSE {})
    \cup (IF displayOptions.images THEN {"images"} ELSE {})
    \cup (IF displayOptions.socialMedia THEN {"social"} ELSE {})

\* the list under key of the displayed content
Items(content, key) == IF Has(content, key) THEN content[key] ELSE <<>>

\* the Generate More Images button is on screen and enabled
MoreImagesButton ==
    /\ generatedContent # Null
    /\ activeTab = "images"
    /\ Has(generatedContent, "productImageBase64")
    /\ Has(generatedContent, "usageImagesBase64")
    /\ ~isGeneratingMoreImages

\* the two New Post buttons are on screen and enabled
NewPostButtons ==
    /\ generatedContent # Null
    /\ activeTab = "social"
    /\ Has(generatedContent, "socialMediaPost")
    /\ ~(isGeneratingNewPost \/ isGeneratingTaglishPost)

\* ------------------------------------------------------------ handlers
\* an execution of an async handler: where it is suspended, and the values of
\* the render it closed over
\* a generate-more handler: not running, or suspended at its await
NotRunning == [phase |-> "none"]

Awaiting == [phase |-> "pending"]

Execution(ph, ptype, benefit, opts) ==
    [phase |-> ph, productType |-> ptype, coreBenefit |-> benefit,
     generationOptions |-> opts]

handleImageUpload ==
    /\ op = "App" /\ ~isLoading
    /\ image' = UploadedImage
    /\ UNCHANGED <<productType, coreBenefit, generatedContent, isLoading,
                   isGeneratingMoreImages, isGeneratingNewPost, isGeneratingTaglishPost,
                   error, generationOptions, displayOptions, activeTab,
                   submits, moreImages, newPost, taglishPost, safetyPassed>>
    /\ UNCHANGED <<op, options, count, pc, req, sceneDescriptions, usageImageResults,
                   productTitleForImages, result, err, safetyVars>>

setProductType ==
    /\ op = "App" /\ ~isLoading
    /\ \E v \in ProductTypes : productType' = v
    /\ UNCHANGED <<image, coreBenefit, generatedContent, isLoading,
                   isGeneratingMoreImages, isGeneratingNewPost, isGeneratingTaglishPost,
                   error, generationOptions, displayOptions, activeTab,
                   submits, moreImages, newPost, taglishPost, safetyPassed>>
    /\ UNCHANGED <<op, options, count, pc, req, sceneDescriptions, usageImageResults,
                   productTitleForImages, result, err, safetyVars>>

setCoreBenefit ==
    /\ op = "App" /\ ~isLoading
    /\ \E v \in CoreBenefits : coreBenefit' = v
    /\ UNCHANGED <<image, productType, generatedContent, isLoading,
                   isGeneratingMoreImages, isGeneratingNewPost, isGeneratingTaglishPost,
                   error, generationOptions, displayOptions, activeTab,
                   submits, moreImages, newPost, taglishPost, safetyPassed>>
    /\ UNCHANGED <<op, options, count, pc, req, sceneDescriptions, usageImageResults,
                   productTitleForImages, result, err, safetyVars>>

handleCheckboxChange(names) ==
    /\ op = "App" /\ ~isLoading
    /\ \E name \in names :
          generationOptions' = [generationOptions EXCEPT ![name] = ~@]
    /\ UNCHANGED <<image, productType, coreBenefit, generatedContent, isLoading,
                   isGeneratingMoreImages, isGeneratingNewPost, isGeneratingTaglishPost,
                   error, displayOptions, activeTab,
                   submits, moreImages, newPost, taglishPost, safetyPassed>>
    /\ UNCHANGED <<op, options, count, pc, req, sceneDescriptions, usageImageResults,
                   productTitleForImages, result, err, safetyVars>>

\* resetKey, the key that remounts the uploader, is read by no handler and is
\* left out
handleReset ==
    /\ op = "App" /\ ~isLoading
    /\ image' = Null
    /\ productType' = "none"
    /\ coreBenefit' = "none"
    /\ generatedContent' = Null
    /\ error' = NoError
    /\ generationOptions' = DefaultOptions
    /\ displayOptions' = NoOptions
    /\ activeTab' = "product"
    /\ UNCHANGED <<isLoading, isGeneratingMoreImages, isGeneratingNewPost,
                   isGeneratingTaglishPost, submits, moreImages, newPost, taglishPost,
                   safetyPassed>>
    /\ UNCHANGED <<op, options, count, pc, req, sceneDescriptions, usageImageResults,
                   productTitleForImages, result, err, safetyVars>>

setActiveTab ==
    /\ op = "App"
    /\ generatedContent # Null
    /\ \E tab \in availableTabs : activeTab' = tab
    /\ UNCHANGED <<image, productType, coreBenefit, generatedContent, isLoading,
                   isGeneratingMoreImages, isGeneratingNewPost, isGeneratingTaglishPost,
                   error, generationOptions, displayOptions,
                   submits, moreImages, newPost, taglishPost, safetyPassed>>
    /\ UNCHANGED <<op, options, count, pc, req, sceneDescriptions, usageImageResults,
                   productTitleForImages, result, err, safetyVars>>

\* a check that lets every selection through
NothingSelected_Never(opts) == FALSE

\* !productListing && !images && !socialMedia
NothingSelected(opts) == ~opts.productListing /\ ~opts.images /\ ~opts.socialMedia

\* seq without its i-th element
Remove(seq, i) == SubSeq(seq, 1, i - 1) \o SubSeq(seq, i + 1, Len(seq))

\* the first tab computed from the options of the current render
firstTab_Live(opts) ==
    IF generationOptions.productListing THEN "product"
    ELSE IF generationOptions.images THEN "images" ELSE "social"

\* firstTab
firstTab(opts) ==
    IF opts.productListing THEN "product" ELSE IF opts.images THEN "images" ELSE "social"

\* handleSubmit up to await checkContentSafety(productType, coreBenefit)
handleSubmit ==
    /\ op = "App"
    /\ ~(isFormIncomplete \/ isLoading)
    /\ CASE isFormIncomplete ->
              /\ error' = ErrFill
              /\ UNCHANGED submits
         [] NothingSelected(generationOptions) ->
              /\ error' = ErrSelect
              /\ UNCHANGED submits
         [] isGibberish(productType) \/ isGibberish(coreBenefit) ->
              /\ error' = ErrGibberish
              /\ UNCHANGED submits
         [] OTHER ->
              /\ Len(submits) < MaxSubmits
              /\ error' = NoError
              /\ submits' = Append(submits,
                    Execution("awaitSafety", productType, coreBenefit, generationOptions))
    /\ UNCHANGED <<image, productType, coreBenefit, generatedContent, isLoading,
                   isGeneratingMoreImages, isGeneratingNewPost, isGeneratingTaglishPost,
                   generationOptions, displayOptions, activeTab,
                   moreImages, newPost, taglishPost, safetyPassed>>
    /\ UNCHANGED <<op, options, count, pc, req, sceneDescriptions, usageImageResults,
                   productTitleForImages, result, err, safetyVars>>

\* a handler that clears the displayed content before it tests the answer
SafetyCheckSettles_ClearsFirst ==
    /\ op = "App"
    /\ \E i \in 1..Len(submits), a \in AppModerationAnswers :
          /\ submits[i].phase = "awaitSafety"
          /\ LET e == submits[i]
                 safe == checkContentSafety(a)
             IN  IF safe = Returned(TRUE)
                 THEN /\ safetyPassed' = safetyPassed \cup {<<e.productType, e.coreBenefit>>}
                      /\ isLoading' = TRUE
                      /\ generatedContent' = Null
                      /\ activeTab' = firstTab(e.generationOptions)
                      /\ submits' = [submits EXCEPT ![i].phase = "awaitContent"]
                      /\ UNCHANGED error
                 ELSE /\ error' = IF safe = Threw THEN ErrCheck ELSE ErrSafety
                      /\ submits' = Remove(submits, i)
                      /\ generatedContent' = Null
                      /\ UNCHANGED <<safetyPassed, isLoading, activeTab>>
    /\ UNCHANGED <<image, productType, coreBenefit, isGeneratingMoreImages,
                   isGeneratingNewPost, isGeneratingTaglishPost, generationOptions,
                   displayOptions, moreImages, newPost, taglishPost>>
    /\ UNCHANGED <<op, options, count, pc, req, sceneDescriptions, usageImageResults,
                   productTitleForImages, result, err, safetyVars>>

\* handleSubmit from the answer of the safety check to
\* await generateProductContent(image, productType, coreBenefit, generationOptions)
SafetyCheckSettles ==
    /\ op = "App"
    /\ \E i \in 1..Len(submits), a \in AppModerationAnswers :
          /\ submits[i].phase = "awaitSafety"
          /\ LET e == submits[i]
                 safe == checkContentSafety(a)
             IN  IF safe = Returned(TRUE)
                 THEN /\ safetyPassed' = safetyPassed \cup {<<e.productType, e.coreBenefit>>}
                      /\ isLoading' = TRUE
                      /\ generatedContent' = Null
                      /\ activeTab' = firstTab(e.generationOptions)
                      /\ submits' = [submits EXCEPT ![i].phase = "awaitContent"]
                      /\ UNCHANGED error
                 ELSE /\ error' = IF safe = Threw THEN ErrCheck ELSE ErrSafety
                      /\ submits' = Remove(submits, i)
                      /\ UNCHANGED <<safetyPassed, isLoading, generatedContent, activeTab>>
    /\ UNCHANGED <<image, productType, coreBenefit, isGeneratingMoreImages,
                   isGeneratingNewPost, isGeneratingTaglishPost, generationOptions,
                   displayOptions, moreImages, newPost, taglishPost>>
    /\ UNCHANGED <<op, options, count, pc, req, sceneDescriptions, usageImageResults,
                   productTitleForImages, result, err, safetyVars>>

\* handleSubmit from the settlement of generateProductContent to its end
ContentSettles ==
    /\ op = "App"
    /\ \E i \in 1..Len(submits) :
          /\ submits[i].phase = "awaitContent"
          /\ \E ans \in AppProductAnswers :
                LET e == submits[i]
                    content == generateProductContent(e.generationOptions, ans)
                IN  /\ IF content.st = "fulfilled"
                       THEN /\ generatedContent' = content.val
                            /\ displayOptions' = e.generationOptions
                            /\ UNCHANGED error
                       ELSE /\ error' = content.err
                            /\ displayOptions' = NoOptions
                            /\ UNCHANGED generatedContent
                    /\ isLoading' = FALSE
                    /\ submits' = Remove(submits, i)
    /\ UNCHANGED <<image, productType, coreBenefit, isGeneratingMoreImages,
                   isGeneratingNewPost, isGeneratingTaglishPost, generationOptions,
                   activeTab, moreImages, newPost, taglishPost, safetyPassed>>
    /\ UNCHANGED <<op, options, count, pc, req, sceneDescriptions, usageImageResults,
                   productTitleForImages, result, err, safetyVars>>

\* the handler without its test of generatedContent.productTitle
handleGenerateMoreImages_NoTitleTest ==
    /\ op = "App"
    /\ MoreImagesButton
    /\ Len(Items(generatedContent, "usageImagesBase64")) < MaxItems
    /\ IF image = Null \/ IsEmpty(productType) \/ IsEmpty(coreBenefit)
       THEN UNCHANGED <<isGeneratingMoreImages, error, moreImages>>
       ELSE /\ isGeneratingMoreImages' = TRUE
            /\ error' = NoError
            /\ moreImages' = Awaiting
    /\ UNCHANGED <<image, productType, coreBenefit, generatedContent, isLoading,
                   isGeneratingNewPost, isGeneratingTaglishPost, generationOptions,
                   displayOptions, activeTab, submits, newPost, taglishPost,
                   safetyPassed>>
    /\ UNCHANGED <<op, options, count, pc, req, sceneDescriptions, usageImageResults,
                   productTitleForImages, result, err, safetyVars>>

\* handleGenerateMoreImages up to await generateMoreUsageImages(..)
handleGenerateMoreImages ==
    /\ op = "App"
    /\ MoreImagesButton
    /\ Len(Items(generatedContent, "usageImagesBase64")) < MaxItems
    /\ IF image = Null \/ IsEmpty(productType) \/ IsEmpty(coreBenefit)
          \/ ~Truthy(generatedContent, "productTitle")
       THEN UNCHANGED <<isGeneratingMoreImages, error, moreImages>>
       ELSE /\ isGeneratingMoreImages' = TRUE
            /\ error' = NoError
            /\ moreImages' = Awaiting
    /\ UNCHANGED <<image, productType, coreBenefit, generatedContent, isLoading,
                   isGeneratingNewPost, isGeneratingTaglishPost, generationOptions,
                   displayOptions, activeTab, submits, newPost, taglishPost,
                   safetyPassed>>
    /\ UNCHANGED <<op, options, count, pc, req, sceneDescriptions, usageImageResults,
                   productTitleForImages, result, err, safetyVars>>

\* an update that stores the new items in place of the list
Appended_Replacing(prev, key, items) ==
    IF prev = Null THEN Null ELSE With(prev, key, items)

\* setGeneratedContent(prev => ..) appending items to the list under key
Appended(prev, key, items) ==
    IF prev = Null THEN Null ELSE With(prev, key, Items(prev, key) \o items)

\* a handler whose catch branch also clears the displayed content
MoreImagesSettle_ClearsOnFailure ==
    /\ op = "App"
    /\ moreImages.phase = "pending"
    /\ \E ans \in AppMoreAnswers :
          LET newImages == generateMoreUsageImages(ans)
          IN  IF newImages.st = "fulfilled"
              THEN /\ generatedContent' =
                         Appended(generatedContent, "usageImagesBase64", newImages.val)
                   /\ UNCHANGED error
              ELSE /\ error' = newImages.err
                   /\ generatedContent' = Null
    /\ isGeneratingMoreImages' = FALSE
    /\ moreImages' = NotRunning
    /\ UNCHANGED <<image, productType, coreBenefit, isLoading,
                   isGeneratingNewPost, isGeneratingTaglishPost, generationOptions,
                   displayOptions, activeTab, submits, newPost, taglishPost,
                   safetyPassed>>
    /\ UNCHANGED <<op, options, count, pc, req, sceneDescriptions, usageImageResults,
                   productTitleForImages, result, err, safetyVars>>

MoreImagesSettle ==
    /\ op = "App"
    /\ moreImages.phase = "pending"
    /\ \E ans \in AppMoreAnswers :
          LET newImages == generateMoreUsageImages(ans)
          IN  IF newImages.st = "fulfilled"
              THEN /\ generatedContent' =
                         Appended(generatedContent, "usageImagesBase64", newImages.val)
                   /\ UNCHANGED error
              ELSE /\ error' = newImages.err
                   /\ UNCHANGED generatedContent
    /\ isGeneratingMoreImages' = FALSE
    /\ moreImages' = NotRunning
    /\ UNCHANGED <<image, productType, coreBenefit, isLoading,
                   isGeneratingNewPost, isGeneratingTaglishPost, generationOptions,
                   displayOptions, activeTab, submits, newPost, taglishPost,
                   safetyPassed>>
    /\ UNCHANGED <<op, options, count, pc, req, sceneDescriptions, usageImageResults,
                   productTitleForImages, result, err, safetyVars>>

handleGenerateNewSocialPost ==
    /\ op = "App"
    /\ NewPostButtons
    /\ Len(Items(generatedContent, "socialMediaPost")) < MaxItems
    /\ IF image = Null \/ generatedContent = Null \/ IsEmpty(productType)
          \/ IsEmpty(coreBenefit)
       THEN UNCHANGED <<isGeneratingNewPost, error, newPost>>
       ELSE /\ isGeneratingNewPost' = TRUE
            /\ error' = NoError
            /\ newPost' = Awaiting
    /\ UNCHANGED <<image, productType, coreBenefit, generatedContent, isLoading,
                   isGeneratingMoreImages, isGeneratingTaglishPost, generationOptions,
                   displayOptions, activeTab, submits, moreImages, taglishPost,
                   safetyPassed>>
    /\ UNCHANGED <<op, options, count, pc, req, sceneDescriptions, usageImageResults,
                   productTitleForImages, result, err, safetyVars>>

NewPostSettles ==
    /\ op = "App"
    /\ newPost.phase = "pending"
    /\ \E ans \in AppPostAnswers :
          LET post == generateNewSocialMediaPost(ans.postText, ans.postImage)
          IN  IF post.st = "fulfilled"
              THEN /\ generatedContent' =
                         Appended(generatedContent, "socialMediaPost", <<post.val>>)
                   /\ UNCHANGED error
              ELSE /\ error' = post.err
                   /\ UNCHANGED generatedContent
    /\ isGeneratingNewPost' = FALSE
    /\ newPost' = NotRunning
    /\ UNCHANGED <<image, productType, coreBenefit, isLoading,
                   isGeneratingMoreImages, isGeneratingTaglishPost, generationOptions,
                   displayOptions, activeTab, submits, moreImages, taglishPost,
                   safetyPassed>>
    /\ UNCHANGED <<op, options, count, pc, req, sceneDescriptions, usageImageResults,
                   productTitleForImages, result, err, safetyVars>>

handleGenerateTaglishPost ==
    /\ op = "App"
    /\ NewPostButtons
    /\ Len(Items(generatedContent, "socialMediaPost")) < MaxItems
    /\ IF image = Null \/ generatedContent = Null \/ IsEmpty(productType)
          \/ IsEmpty(coreBenefit)
       THEN UNCHANGED <<isGeneratingTaglishPost, error, taglishPost>>
       ELSE /\ isGeneratingTaglishPost' = TRUE
            /\ error' = NoError
            /\ taglishPost' = Awaiting
    /\ UNCHANGED <<image, productType, coreBenefit, generatedContent, isLoading,
                   isGeneratingMoreImages, isGeneratingNewPost, generationOptions,
                   displayOptions, activeTab, submits, moreImages, newPost,
                   safetyPassed>>
    /\ UNCHANGED <<op, options, count, pc, req, sceneDescriptions, usageImageResults,
                   productTitleForImages, result, err, safetyVars>>

TaglishPostSettles ==
    /\ op = "App"
    /\ taglishPost.phase = "pending"
    /\ \E ans \in AppPostAnswers :
          LET post == generateNewSocialMediaPost(ans.postText, ans.postImage)
          IN  IF post.st = "fulfilled"
              THEN /\ generatedContent' =
                         Appended(generatedContent, "socialMediaPost", <<post.val>>)
                   /\ UNCHANGED error
              ELSE /\ error' = post.err
                   /\ UNCHANGED generatedContent
    /\ isGeneratingTaglishPost' = FALSE
    /\ taglishPost' = NotRunning
    /\ UNCHANGED <<image, productType, coreBenefit, isLoading,
                   isGeneratingMoreImages, isGeneratingNewPost, generationOptions,
                   displayOptions, activeTab, submits, moreImages, newPost,
                   safetyPassed>>
    /\ UNCHANGED <<op, options, count, pc, req, sceneDescriptions, usageImageResults,
                   productTitleForImages, result, err, safetyVars>>

\* ------------------------------------------------------------ the states
ServiceAtRest ==
    /\ options = NoOptions
    /\ count = SceneCount
    /\ pc = "idle"
    /\ req = [r \in ReqIds |-> Idle]
    /\ sceneDescriptions = <<>>
    /\ usageImageResults = <<>>
    /\ productTitleForImages = "none"
    /\ result = EmptyObject
    /\ err = NoError

SafetyAtRest ==
    /\ moderationResponse = Idle
    /\ isSafe = NotCalled

\* the App component after its first render
AppMounted ==
    /\ image = Null
    /\ coreBenefit = "none"
    /\ generatedContent = Null
    /\ isLoading = FALSE
    /\ isGeneratingMoreImages = FALSE
    /\ isGeneratingNewPost = FALSE
    /\ isGeneratingTaglishPost = FALSE
    /\ error = NoError
    /\ generationOptions = DefaultOptions
    /\ displayOptions = NoOptions
    /\ activeTab = "product"
    /\ submits = <<>>
    /\ moreImages = NotRunning
    /\ newPost = NotRunning
    /\ taglishPost = NotRunning
    /\ safetyPassed = {}

Init ==
    /\ op = "App"
    /\ productType = "none"
    /\ ServiceAtRest
    /\ SafetyAtRest
    /\ AppMounted

Next ==
    \/ handleImageUpload
    \/ setProductType
    \/ setCoreBenefit
    \/ handleCheckboxChange(Toggled)
    \/ handleReset
    \/ setActiveTab
    \/ handleSubmit
    \/ SafetyCheckSettles
    \/ ContentSettles
    \/ handleGenerateMoreImages
    \/ MoreImagesSettle
    \/ handleGenerateNewSocialPost
    \/ NewPostSettles
    \/ handleGenerateTaglishPost
    \/ TaglishPostSettles

Spec == Init /\ [][Next]_vars

\* every upstream request is answered in the end: the continuation of each
\* suspended handler runs
Answered ==
    /\ WF_vars(SafetyCheckSettles)
    /\ WF_vars(ContentSettles)
    /\ WF_vars(MoreImagesSettle)
    /\ WF_vars(NewPostSettles)
    /\ WF_vars(TaglishPostSettles)

SpecLive == Init /\ [][Next]_vars /\ Answered

\* ------------------------------------------------- one call of the service
Ops == {"generateProductContent", "generateMoreUsageImages",
        "generateNewSocialMediaPost", "generateTaglishSocialMediaPost"}

InitService ==
    /\ op \in Ops
    /\ options \in AllOptions
    /\ op # "generateProductContent" => options = NoOptions
    /\ productType = "plan"
    /\ count = SceneCount
    /\ pc = "idle"
    /\ req = [r \in ReqIds |-> Idle]
    /\ sceneDescriptions = <<>>
    /\ usageImageResults = <<>>
    /\ productTitleForImages = "none"
    /\ result = EmptyObject
    /\ err = NoError
    /\ SafetyAtRest
    /\ AppMounted

NextService ==
    \/ CallGenerateProductContent
    \/ CallGenerateMoreUsageImages
    \/ CallGenerateNewSocialMediaPost
    \/ ListingSettles
    \/ SocialTextSettles
    \/ SocialImageSettles
    \/ StudioSettles
    \/ SceneSettles
    \/ UsageSettles
    \/ PostTextSettles
    \/ PostImageSettles

SpecService == InitService /\ [][NextService]_vars

\* the form with all three checkboxes and its submissions, or one call of the
\* service
NextSelection ==
    \/ handleImageUpload
    \/ setProductType
    \/ setCoreBenefit
    \/ handleCheckboxChange(Checkboxes)
    \/ handleSubmit
    \/ SafetyCheckSettles
    \/ ContentSettles
    \/ NextService

SpecSelection == (Init \/ InitService) /\ [][NextSelection]_vars

\* --------------------------------------- one run of the scene pipeline
\* _generateSceneDescriptions(title, type, benefit, count)
\*     .then(scenes => _generateUsageImages(image, scenes, type))
CallScenePipeline ==
    /\ op = "scenesThenImages" /\ pc = "idle"
    /\ req' = [req EXCEPT !["scene"] = Pending]
    /\ pc' = "awaitImages"
    /\ UNCHANGED <<op, options, productType, count, sceneDescriptions,
                   usageImageResults, productTitleForImages, result, err>>
    /\ UNCHANGED <<safetyVars, appVars>>

InitScenes ==
    /\ op = "scenesThenImages"
    /\ options = NoOptions
    /\ productType = "plan"
    /\ count \in 0..MaxCount
    /\ pc = "idle"
    /\ req = [r \in ReqIds |-> Idle]
    /\ sceneDescriptions = <<>>
    /\ usageImageResults = <<>>
    /\ productTitleForImages = "none"
    /\ result = EmptyObject
    /\ err = NoError
    /\ SafetyAtRest
    /\ AppMounted

NextScenes ==
    \/ CallScenePipeline
    \/ SceneSettles
    \/ UsageSettles

SpecScenes == InitScenes /\ [][NextScenes]_vars

\* ------------------------------------------- one call of checkContentSafety
CallCheckContentSafety ==
    /\ moderationResponse = Idle
    /\ moderationResponse' = Pending
    /\ UNCHANGED <<isSafe, svcVars, appVars>>

ModerationSettles ==
    /\ moderationResponse = Pending
    /\ \E a \in ModerationAnswers :
          /\ moderationResponse' = a
          /\ isSafe' = checkContentSafety(a)
    /\ UNCHANGED <<svcVars, appVars>>

InitSafety ==
    /\ op = "checkContentSafety"
    /\ productType = "plan"
    /\ ServiceAtRest
    /\ SafetyAtRest
    /\ AppMounted

NextSafety ==
    \/ CallCheckContentSafety
    \/ ModerationSettles

SpecSafety == InitSafety /\ [][NextSafety]_vars

\* ------------------------------------------------ properties of one call
IsGenerate == op = "generateProductContent"

NothingIssued ==
    /\ \A r \in ReqIds : req[r].st = "idle"
    /\ usageImageResults = <<>>

\* the selected text tasks, as promises
SelectedTextTasks ==
    { TextTask(textPromises(options)[i], req) : i \in 1..Len(textPromises(options)) }

ImagePhaseStarted ==
    \/ req["studio"].st # "idle"
    \/ req["scene"].st # "idle"
    \/ usageImageResults # <<>>

\* C4: a resolved aggregate holds title/description only if productListing was
\* selected, socialMediaPost only if socialMedia was, and the two image fields
\* only if images was
C4_FieldsFollowOptions ==
    (IsGenerate /\ pc = "resolved") =>
        /\ (Has(result, "productTitle") \/ Has(result, "productDescription"))
              => options.productListing
        /\ Has(result, "socialMediaPost") => options.socialMedia
        /\ (Has(result, "productImageBase64") \/ Has(result, "usageImagesBase64"))
              => options.images

\* C5: a resolved aggregate has every selected category populated: title and
\* description, studio image and 1..4 usage images, at least one post; with
\* only productListing selected the image and post fields are absent
C5_SelectedArePopulated ==
    (IsGenerate /\ pc = "resolved") =>
        /\ options.productListing =>
              Has(result, "productTitle") /\ Has(result, "productDescription")
        /\ options.images =>
              /\ Has(result, "productImageBase64")
              /\ Has(result, "usageImagesBase64")
              /\ Len(result.usageImagesBase64) \in 1..SceneCount
        /\ options.socialMedia =>
              Has(result, "socialMediaPost") /\ Len(result.socialMediaPost) >= 1
        /\ (options.productListing /\ ~options.images /\ ~options.socialMedia) =>
              /\ ~Has(result, "productImageBase64")
              /\ ~Has(result, "usageImagesBase64")
              /\ ~Has(result, "socialMediaPost")

\* some category of the aggregate r holds content
Populated(r) ==
    \/ Has(r, "productTitle")
    \/ Has(r, "productDescription")
    \/ Has(r, "productImageBase64")
    \/ Has(r, "usageImagesBase64") /\ Len(r.usageImagesBase64) > 0
    \/ Has(r, "socialMediaPost") /\ Len(r.socialMediaPost) > 0

\* C6: the call never resolves with an aggregate in which no category is
\* populated (an empty object, or only an empty list of posts)
C6_NeverResolvesEmpty ==
    (IsGenerate /\ pc = "resolved") => Populated(result)

\* C8: with images selected, a studio response without an image part never
\* lets the call resolve, and the call has rejected once the usage batch is in
C8_StudioImageRequired ==
    (IsGenerate /\ options.images /\ req["studio"] = Fulfilled(NoImagePart)) =>
        /\ pc \in {"awaitImages", "rejected"}
        /\ (IsSettled(req["scene"])
              /\ _generateUsageImages(sceneDescriptions, usageImageResults).st # "pending")
             => pc = "rejected"

C8_Witness ==
    /\ IsGenerate /\ options.images /\ options.productListing
    /\ req["studio"] = Fulfilled(NoImagePart)
    /\ Len(usageImageResults) = SceneCount
    /\ \A i \in 1..SceneCount : HasInlineData(usageImageResults[i])
    /\ pc = "rejected" /\ err = ErrStudio

\* C9: a failed text task rejects the call and no image-phase request is ever
\* issued; image-phase requests exist only once every selected text task has
\* fulfilled
C9_TextFailureAborts ==
    IsGenerate =>
        /\ (\E t \in SelectedTextTasks : t.st = "rejected") =>
              /\ pc = "rejected"
              /\ ~ImagePhaseStarted
        /\ ImagePhaseStarted => \A t \in SelectedTextTasks : t.st = "fulfilled"

C9_Witness ==
    /\ IsGenerate /\ options.images /\ options.productListing /\ options.socialMedia
    /\ _generateProductListing(req["listing"]).st = "fulfilled"
    /\ _generateInitialSocialPost(req["socialText"], req["socialImage"]).st = "rejected"
    /\ pc = "rejected"

\* the post p of a text reply and the post r that was returned agree on every
\* field but the illustration, and r carries imageBase64 exactly when the
\* illustration request ri was fulfilled with image data
PostKept(p, r, ri) ==
    /\ Without(r, "imageBase64") = Without(p, "imagePrompt")
    /\ Has(r, "imageBase64") <=> HasInlineData(ri)
    /\ Has(r, "imageBase64") => r.imageBase64 = ri.body.data

\* C10: once the post text has arrived, the post is returned with its hook,
\* body and hashtags for every outcome of the illustration request, and it
\* carries imageBase64 exactly when that request gave image data
C10_PostSurvivesIllustration ==
    /\ (op \in {"generateNewSocialMediaPost", "generateTaglishSocialMediaPost"}
         /\ ParsedText(req["postText"]).st = "fulfilled"
         /\ req["postImage"].st # "pending") =>
            /\ pc = "resolved"
            /\ PostKept(req["postText"].body.val, result, req["postImage"])
    /\ (IsGenerate
         /\ ParsedText(req["socialText"]).st = "fulfilled"
         /\ WantsImage(req["socialText"].body.val)
         /\ req["socialImage"].st # "pending") =>
            LET task == _generateInitialSocialPost(req["socialText"], req["socialImage"])
            IN  /\ task.st = "fulfilled"
                /\ PostKept(req["socialText"].body.val.socialMediaPost[1],
                            task.val.socialMediaPost[1], req["socialImage"])
                /\ pc = "resolved" => result.socialMediaPost = task.val.socialMediaPost

C10_Witness ==
    /\ op = "generateTaglishSocialMediaPost"
    /\ req["postText"] = Fulfilled(JSON(ConformingPost))
    /\ req["postImage"] = Rejected
    /\ pc = "resolved"
    /\ ~Has(result, "imageBase64")

\* C2: checkContentSafety returns true exactly when the response text is
\* "SAFE" up to surrounding whitespace
C2_SafeOnlyForExactSAFE ==
    (moderationResponse.st = "fulfilled" /\ moderationResponse.body.kind = "text") =>
        isSafe = Returned(trim(moderationResponse.body.text) = SAFE)

\* C3: when the request rejects or the response has no readable text the
\* check does not throw and returns false
C3_FailsClosed ==
    /\ isSafe # Threw
    /\ (moderationResponse = Rejected \/ moderationResponse = Fulfilled(NoText)) =>
          isSafe = Returned(FALSE)

C3_Witness ==
    /\ moderationResponse = Fulfilled(NoText)
    /\ isSafe = Returned(FALSE)

\* ------------------------------------------------ properties of the App
\* a generate-more handler goes from not running to its await
Starts(execution) == execution.phase = "none" /\ execution'.phase = "pending"

\* C1: every generation request carries a (productType, coreBenefit) pair for
\* which a checkContentSafety call has returned true before: the requests of a
\* run started by handleSubmit, and the requests the three generate-more
\* handlers issue with the fields as they are at the click
C1_RequestsFollowSafeCheck ==
    [][ /\ \A i \in 1..Len(submits') :
              submits'[i].phase = "awaitContent" =>
                 <<submits'[i].productType, submits'[i].coreBenefit>> \in safetyPassed'
        /\ (Starts(moreImages) \/ Starts(newPost) \/ Starts(taglishPost)) =>
              <<productType, coreBenefit>> \in safetyPassed ]_vars

\* C7: with nothing selected generateProductContent rejects and has issued no
\* request at any point of the call; handleSubmit with all three options false
\* sets the select-something error and starts neither the safety check nor a
\* generation run, so no execution of it ever waits with an empty selection
C7_NothingSelected ==
    [][ /\ (IsGenerate /\ options = NoOptions) =>
              /\ NothingIssued'
              /\ pc' = "rejected" /\ err' = ErrNothing /\ result' = EmptyObject
        /\ (handleSubmit /\ generationOptions = NoOptions) =>
              /\ error' = ErrSelect
              /\ UNCHANGED <<submits, safetyPassed, isLoading, generatedContent>>
        /\ \A i \in 1..Len(submits') : submits'[i].generationOptions # NoOptions ]_vars

C7_Witness ==
    /\ op = "App"
    /\ ~isFormIncomplete
    /\ generationOptions = NoOptions
    /\ error = ErrSelect
    /\ submits = <<>>
    /\ safetyPassed = {}

\* --------------------------------------- properties of the scene pipeline
\* the scene request failed, or its body is not a non-empty array of strings
SceneUnusable(r) ==
    \/ r.st = "rejected"
    \/ /\ r.st = "fulfilled"
       /\ \/ r.body.kind # "json"
          \/ ~r.body.val.isArray
          \/ r.body.val.items = <<>>
          \/ \E i \in 1..Len(r.body.val.items) : ~r.body.val.items[i].isString

\* C11: when the scene request rejects or its body is not a non-empty JSON
\* array of strings, the function does not throw (the pipeline goes on to the
\* image requests) and returns exactly count fallback strings with the
\* suffixes #1..#count, pairwise distinct and the same on every such call
C11_FallbackScenes ==
    (op = "scenesThenImages" /\ SceneUnusable(req["scene"])) =>
        /\ Len(sceneDescriptions) = count
        /\ \A i \in 1..count :
              sceneDescriptions[i].fallback /\ sceneDescriptions[i].s = i
        /\ \A i, j \in 1..count : i # j => sceneDescriptions[i] # sceneDescriptions[j]
        /\ Len(usageImageResults) = count
        /\ pc = "rejected" => err = ErrNoUsage

C11_Witness ==
    /\ op = "scenesThenImages" /\ count = SceneCount
    /\ req["scene"].st = "fulfilled" /\ req["scene"].body.kind = "json"
    /\ \E i \in 1..Len(req["scene"].body.val.items) : ~req["scene"].body.val.items[i].isString
    /\ Len(sceneDescriptions) = SceneCount
    /\ sceneDescriptions[SceneCount] = Fallback(SceneCount)

\* C12: a JSON array of n >= 1 strings is answered with its first
\* min(n, count) elements, unchanged and in their order
C12_FirstScenesKept ==
    (op = "scenesThenImages" /\ IsSettled(req["scene"]) /\ ~SceneUnusable(req["scene"])) =>
        LET items == req["scene"].body.val.items
        IN  /\ Len(sceneDescriptions) = IF Len(items) < count THEN Len(items) ELSE count
            /\ \A i \in 1..Len(sceneDescriptions) :
                  /\ ~sceneDescriptions[i].fallback
                  /\ sceneDescriptions[i].s = items[i].s

C12_Witness ==
    /\ op = "scenesThenImages" /\ count = SceneCount
    /\ IsSettled(req["scene"]) /\ ~SceneUnusable(req["scene"])
    /\ Len(req["scene"].body.val.items) = SceneCount + 2
    /\ Len(sceneDescriptions) = SceneCount
    /\ sceneDescriptions[SceneCount] = Scene(SceneString(SceneCount))

\* C13: for every outcome of the scene request the returned sequence has
\* length exactly count
C13_LengthIsCount ==
    (op = "scenesThenImages" /\ IsSettled(req["scene"])) => Len(sceneDescriptions) = count

\* the requests of the batch that gave image data
Succeeded == { i \in 1..Len(usageImageResults) : HasInlineData(usageImageResults[i]) }

BatchSettled ==
    /\ op = "scenesThenImages"
    /\ IsSettled(req["scene"])
    /\ \A i \in 1..Len(usageImageResults) : IsSettled(usageImageResults[i])

\* C14: when k >= 1 requests of a settled batch gave image data the call
\* returns exactly those k payloads, each once and none substituted; the
\* result is never longer than the scene list
C14_SuccessfulImagesReturned ==
    (BatchSettled /\ Succeeded # {}) =>
        /\ pc = "resolved"
        /\ Len(result) = Cardinality(Succeeded)
        /\ Len(result) <= Len(sceneDescriptions)
        /\ { result[j] : j \in 1..Len(result) }
              = { usageImageResults[i].body.data : i \in Succeeded }

C14_Witness ==
    /\ BatchSettled /\ Len(sceneDescriptions) = SceneCount
    /\ Cardinality(Succeeded) = 2
    /\ \E i \in 1..SceneCount : usageImageResults[i] = Rejected
    /\ \E i \in 1..SceneCount : usageImageResults[i] = Fulfilled(NoImagePart)
    /\ pc = "resolved" /\ Len(result) = 2

\* C15: the call throws the no-images error exactly when the scene list is
\* not empty and no request gave image data; for an empty scene list it
\* issues no request and returns an empty sequence
C15_ThrowsOnlyWhenNothingProduced ==
    (BatchSettled) =>
        /\ (pc = "rejected" /\ err = ErrNoUsage)
              <=> (sceneDescriptions # <<>> /\ Succeeded = {})
        /\ pc = "rejected" => err = ErrNoUsage
        /\ sceneDescriptions = <<>> =>
              /\ usageImageResults = <<>>
              /\ pc = "resolved" /\ result = <<>>

C15_Witness ==
    /\ BatchSettled /\ Len(sceneDescriptions) = SceneCount /\ Succeeded = {}
    /\ pc = "rejected" /\ err = ErrNoUsage

\* C16: one request per scene, all issued in one step before any outcome; a
\* settled request is never issued again; the call settles only when every
\* request of the batch has settled
C16_BatchWaitsForAll ==
    [][ op = "scenesThenImages" =>
          /\ IsSettled(req["scene"]') => Len(usageImageResults') = Len(sceneDescriptions')
          /\ (~IsSettled(req["scene"]) /\ IsSettled(req["scene"]')) =>
                \A i \in 1..Len(usageImageResults') : usageImageResults'[i] = Pending
          /\ IsSettled(req["scene"]) =>
                /\ sceneDescriptions' = sceneDescriptions
                /\ Len(usageImageResults') = Len(usageImageResults)
                /\ \A i \in 1..Len(usageImageResults) :
                      IsSettled(usageImageResults[i]) =>
                         usageImageResults'[i] = usageImageResults[i]
          /\ pc' \in {"resolved", "rejected"} =>
                \A i \in 1..Len(usageImageResults') : IsSettled(usageImageResults'[i]) ]_vars

C16_Witness ==
    /\ op = "scenesThenImages" /\ Len(usageImageResults) = SceneCount
    /\ usageImageResults[1] = Rejected
    /\ usageImageResults[2].st = "pending"
    /\ HasInlineData(usageImageResults[3])
    /\ pc = "awaitImages"

\* ------------------------------------------- properties of the App session
\* C17: every completion of a generate-more-images, new-post or Taglish-post
\* handler leaves each list of the displayed content with its previous value
\* as a prefix: a successful completion stores the previous list followed by
\* the new items, a failed one changes nothing, and the other list and the
\* other fields stay as they were, whatever other handlers are in flight
C17_ListsOnlyGrow ==
    [][ (op = "App" /\ generatedContent # Null) =>
          /\ (moreImages.phase = "pending" /\ moreImages'.phase = "none") =>
                \E ans \in AppMoreAnswers :
                   LET newImages == generateMoreUsageImages(ans)
                   IN  IF newImages.st = "fulfilled"
                       THEN generatedContent' =
                               With(generatedContent, "usageImagesBase64",
                                    Items(generatedContent, "usageImagesBase64")
                                       \o newImages.val)
                       ELSE generatedContent' = generatedContent /\ error' = newImages.err
          /\ (\/ newPost.phase = "pending" /\ newPost'.phase = "none"
              \/ taglishPost.phase = "pending" /\ taglishPost'.phase = "none") =>
                \E ans \in AppPostAnswers :
                   LET post == generateNewSocialMediaPost(ans.postText, ans.postImage)
                   IN  IF post.st = "fulfilled"
                       THEN generatedContent' =
                               With(generatedContent, "socialMediaPost",
                                    Append(Items(generatedContent, "socialMediaPost"),
                                           post.val))
                       ELSE generatedContent' = generatedContent /\ error' = post.err ]_vars

C17_Witness ==
    /\ op = "App" /\ generatedContent # Null
    /\ Items(generatedContent, "usageImagesBase64") = <<"usageImage", "moreImage">>
    /\ Len(Items(generatedContent, "socialMediaPost")) = 2
    /\ generatedContent.socialMediaPost[2].imageBase64 = "newPostImage"

\* C18: a structured-text reply that is valid JSON but breaks the required
\* fields of its request (a field missing or a field added) makes the call
\* fail: the call never resolves with it
C18_ContractViolationFails ==
    LET IsJSON(r) == r.st = "fulfilled" /\ r.body.kind = "json"
        PostFields == {"hook", "body", "hashtags", "imagePrompt"}
    IN  /\ ( /\ op \in {"generateNewSocialMediaPost", "generateTaglishSocialMediaPost"}
             /\ IsJSON(req["postText"])
             /\ DOMAIN req["postText"].body.val # PostFields ) => pc # "resolved"
        /\ ( /\ op = "generateProductContent"
             /\ IsJSON(req["listing"])
             /\ DOMAIN req["listing"].body.val # {"productTitle", "productDescription"} )
              => pc # "resolved"
        /\ ( /\ op = "generateProductContent"
             /\ IsJSON(req["socialText"])
             /\ \/ DOMAIN req["socialText"].body.val # {"socialMediaPost"}
                \/ \E i \in 1..Len(req["socialText"].body.val.socialMediaPost) :
                      DOMAIN req["socialText"].body.val.socialMediaPost[i] # PostFields )
              => pc # "resolved"

\* C19: the outcome of a safety request that failed in transport is an
\* "unable to verify" outcome: it differs from the outcome of every completed
\* classification whose answer is not SAFE, the answer UNSAFE among them
C19_UnableToVerifyIsDistinct ==
    moderationResponse = Rejected =>
        \A t \in ModerationTexts :
           trim(t) # SAFE => isSafe # checkContentSafety(Fulfilled(Text(t)))

\* C20: at most one handleSubmit execution is between the start of its
\* safety check and the settling of its generateProductContent call
C20_OneSubmissionInFlight ==
    op = "App" => Len(submits) <= 1

\* C21: a run works on the options of the render in which it was submitted:
\* the execution records generationOptions at the click and keeps them, the
\* first tab chosen when the safety check passes, the options handed to
\* generateProductContent and the displayOptions stored on success are those
\* recorded options, whatever the checkboxes have become meanwhile
C21_OptionsSnapshot ==
    [][ op = "App" =>
          /\ Len(submits') = Len(submits) + 1 =>
                /\ submits'[Len(submits')].generationOptions = generationOptions
                /\ SubSeq(submits', 1, Len(submits)) = submits
          /\ Len(submits') = Len(submits) =>
                \A i \in 1..Len(submits) :
                   /\ submits'[i].generationOptions = submits[i].generationOptions
                   /\ (submits[i].phase = "awaitSafety"
                          /\ submits'[i].phase = "awaitContent") =>
                         activeTab' = IF submits[i].generationOptions.productListing
                                      THEN "product"
                                      ELSE IF submits[i].generationOptions.images
                                           THEN "images" ELSE "social"
          /\ Len(submits') = Len(submits) - 1 =>
                \E i \in 1..Len(submits) :
                   /\ submits' = Remove(submits, i)
                   /\ submits[i].phase = "awaitContent" =>
                         \E ans \in AppProductAnswers :
                            LET content == generateProductContent(
                                              submits[i].generationOptions, ans)
                            IN  IF content.st = "fulfilled"
                                THEN /\ generatedContent' = content.val
                                     /\ displayOptions' = submits[i].generationOptions
                                ELSE /\ error' = content.err
                                     /\ displayOptions' = NoOptions ]_vars

C21_Witness ==
    /\ op = "App"
    /\ \E i \in 1..Len(submits) :
          /\ submits[i].phase = "awaitContent"
          /\ submits[i].generationOptions # generationOptions
          /\ activeTab = firstTab(submits[i].generationOptions)
          /\ activeTab # firstTab(generationOptions)

\* C22: when the safety check of a submission answers false the execution
\* ends there: no run is started for it, the error message is the safety
\* message, and generatedContent, displayOptions, activeTab and isLoading are
\* left as they were
C22_RejectedSubmissionChangesOnlyError ==
    [][ op = "App" =>
          \A i \in 1..Len(submits) :
             (submits[i].phase = "awaitSafety" /\ submits' = Remove(submits, i)) =>
                /\ error' = ErrSafety
                /\ generatedContent' = generatedContent
                /\ displayOptions' = displayOptions
                /\ activeTab' = activeTab
                /\ isLoading' = isLoading
                /\ safetyPassed' = safetyPassed ]_vars

C22_Witness ==
    /\ op = "App"
    /\ error = ErrSafety
    /\ generatedContent # Null
    /\ displayOptions # NoOptions
    /\ activeTab = "images"
    /\ submits = <<>> /\ ~isLoading

\* C23: once generateProductContent has returned or thrown, none of the
\* upstream requests it started is still pending
C23_SettlesAfterItsRequests ==
    (op = "generateProductContent" /\ pc \in {"resolved", "rejected"}) =>
        /\ \A r \in ReqIds : req[r].st # "pending"
        /\ \A i \in 1..Len(usageImageResults) : usageImageResults[i].st # "pending"

\* C24: once the scene request of generateProductContent has been issued the
\* listing task is over, and the title the request carries is the
\* productTitle of the listing reply of this call when the listing was
\* selected and gave a non-empty title, and productType in every other case
C24_SceneTitleFromListing ==
    (op = "generateProductContent" /\ req["scene"].st # "idle") =>
        LET listing == req["listing"]
            titled == /\ options.productListing
                      /\ listing.st = "fulfilled" /\ listing.body.kind = "json"
                      /\ Truthy(listing.body.val, "productTitle")
        IN  /\ listing.st # "pending"
            /\ productTitleForImages =
                  IF titled THEN listing.body.val.productTitle ELSE productType

\* C25: when the generateProductContent call of a submission rejects, the
\* handler leaves generatedContent null, displayOptions all false, isLoading
\* false and an error message: nothing of the run is displayed
C25_FailedRunShowsNothing ==
    [][ op = "App" =>
          \A i \in 1..Len(submits) :
             ( /\ submits[i].phase = "awaitContent"
               /\ submits' = Remove(submits, i)
               /\ displayOptions' = NoOptions ) =>
                /\ generatedContent' = Null
                /\ isLoading' = FALSE
                /\ error' # NoError ]_vars

\* C26: a generate-more completion appends only to the content of the run it
\* was requested from: when it changes generatedContent, the list it appends
\* to is already there, so it casts no usageImagesBase64 or socialMediaPost
\* field into the content of a later run that was made without it
C26_AppendsToItsOwnRun ==
    [][ (op = "App" /\ generatedContent' # generatedContent) =>
          /\ (moreImages.phase = "pending" /\ moreImages'.phase = "none") =>
                Has(generatedContent, "usageImagesBase64")
          /\ (\/ newPost.phase = "pending" /\ newPost'.phase = "none"
              \/ taglishPost.phase = "pending" /\ taglishPost'.phase = "none") =>
                Has(generatedContent, "socialMediaPost") ]_vars

\* C27: the images a settled batch returns are in the order of their scenes:
\* the request of scene i carries payload i, and the returned payloads are
\* those of the successful requests in increasing order, in whatever order
\* the requests were answered
C27_ImagesInSceneOrder ==
    (BatchSettled /\ pc = "resolved") =>
        /\ \A j \in 1..Len(result) :
              /\ result[j] \in Succeeded
              /\ usageImageResults[result[j]].body.data = result[j]
        /\ \A j, k \in 1..Len(result) : j < k => result[j] < result[k]

C27_Witness ==
    /\ BatchSettled /\ pc = "resolved"
    /\ Len(usageImageResults) = SceneCount
    /\ usageImageResults[2] = Rejected
    /\ result = <<1, 3, 4>>

\* C28: every completion of a generate-more handler returns its in-progress
\* flag to false, and a completion that reports an error leaves
\* generatedContent exactly as it was and stores a message
C28_FailedGenerateMoreKeepsContent ==
    [][ op = "App" =>
          /\ (moreImages.phase = "pending" /\ moreImages'.phase = "none") =>
                ~isGeneratingMoreImages'
          /\ (newPost.phase = "pending" /\ newPost'.phase = "none") =>
                ~isGeneratingNewPost'
          /\ (taglishPost.phase = "pending" /\ taglishPost'.phase = "none") =>
                ~isGeneratingTaglishPost'
          /\ ( /\ \/ moreImages.phase = "pending" /\ moreImages'.phase = "none"
                  \/ newPost.phase = "pending" /\ newPost'.phase = "none"
                  \/ taglishPost.phase = "pending" /\ taglishPost'.phase = "none"
               /\ error' # error ) =>
                /\ generatedContent' = generatedContent
                /\ error' # NoError ]_vars

C28_Witness ==
    /\ op = "App"
    /\ error = ErrNoUsage
    /\ generatedContent # Null
    /\ Len(Items(generatedContent, "usageImagesBase64")) = 1
    /\ ~isGeneratingMoreImages /\ moreImages.phase = "none"

C29_RunsEnd ==
    /\ (\E i \in 1..Len(submits) : submits[i].phase = "awaitContent")
          ~> (~isLoading /\ ((generatedContent # Null) # (error # NoError)))
    /\ isGeneratingMoreImages ~> ~isGeneratingMoreImages
    /\ isGeneratingNewPost ~> ~isGeneratingNewPost
    /\ isGeneratingTaglishPost ~> ~isGeneratingTaglishPost

====
